---- MODULE Spec2Model ----
(***************************************************************************)
(* Model of init/data/array/basic.cpp (compiler output for the module      *)
(* init.data.array.basic): the array combinators as a state machine over   *)
(* a heap of reference-counted array objects.  One combinator call is a    *)
(* Call_* action (the entry function up to its call of the loop), a        *)
(* Step_* action per loop iteration (the taken branch of the loop body)    *)
(* and an Exit_* action (the exit branch of the loop plus the releases     *)
(* the entry function performs after the loop returns).                    *)
(*                                                                         *)
(* Element values, accumulators and callable results are terms: a term is  *)
(* a sequence of integers in prefix notation, so that an uninterpreted     *)
(* callable is injective in each argument and argument order is visible.   *)
(***************************************************************************)
EXTENDS Integers, Sequences, FiniteSets, TLC

VARIABLES op, pc, heap, f, frc, x_a, x_b, x_it, x_out, idx, acc, lst,
          res_arr, res_val, inp, chain, wlog, clog, alog, cnt, res_prev,
          ini

vars == <<op, pc, heap, f, frc, x_a, x_b, x_it, x_out, idx, acc, lst,
          res_arr, res_val, inp, chain, wlog, clog, alog, cnt, res_prev,
          ini>>

(***************************************************************************)
(* Bounds of the model.                                                    *)
(***************************************************************************)
MaxLen == 3
MaxVal == 2
MaxChain == 2
MaxHigh == 1
MaxInitCalls == 3

Vals == 1..MaxVal

(***************************************************************************)
(* Terms and callables.                                                    *)
(***************************************************************************)
Leaf(v) == <<v>>

RECURSIVE SeqsUpTo(_)
SeqsUpTo(n) ==
  IF n = 0 THEN {<<>>}
  ELSE LET S == SeqsUpTo(n - 1)
       IN S \cup {Append(s, Leaf(v)) : s \in {t \in S : Len(t) = n - 1}, v \in Vals}

Arrays == SeqsUpTo(MaxLen)

Fun1 == {"id", "free1", "free1b"}
Fun2 == {"free2", "sub"}
FunIdx == {"free2", "snd"}
Fun3 == {"free3"}

\* A one-argument callable that is not a composition.
apply_base(g, x) ==
  CASE g = "id" -> x
    [] g = "free1" -> <<-1>> \o x
    [] OTHER -> <<-2>> \o x

\* "comp" is the closure of function.comp over the two callables kept in
\* inp.g2 (applied last) and inp.g1 (applied first).
apply_1(g, x) ==
  IF g = "comp" THEN apply_base(inp.g2, apply_base(inp.g1, x))
  ELSE apply_base(g, x)

apply_2(g, x, y) ==
  CASE g = "sub" -> <<x[1] - y[1]>>
    [] g = "snd" -> y
    [] OTHER -> <<0>> \o x \o y

apply_3(g, i, x, y) == <<-3>> \o i \o x \o y

(***************************************************************************)
(* The runtime's object primitives on a heap: a heap is a sequence of      *)
(* array objects, an object's id is its position.                          *)
(***************************************************************************)
NewId(h) == Len(h) + 1

Alloc(h, es, n) == Append(h, [rc |-> n, pers |-> FALSE, elems |-> es])

inc(h, o) == IF h[o].pers THEN h ELSE [h EXCEPT ![o].rc = @ + 1]

dec(h, o) == IF h[o].pers THEN h ELSE [h EXCEPT ![o].rc = @ - 1]

is_exclusive(h, o) == h[o].rc = 1 /\ ~h[o].pers

array_get_size(h, o) == Len(h[o].elems)

\* array_sz takes its argument owned: it yields the size and releases it.
array_sz(h, o) == Len(h[o].elems)
array_sz_heap(h, o) == dec(h, o)

array_read(h, o, i) == h[o].elems[i + 1]

\* array_write takes the array owned: in place iff exclusive, else a copy.
array_write_ref(h, o) == IF is_exclusive(h, o) THEN o ELSE NewId(h)
array_write(h, o, i, v) ==
  IF is_exclusive(h, o)
  THEN [h EXCEPT ![o].elems[i + 1] = v]
  ELSE Alloc(dec(h, o), [h[o].elems EXCEPT ![i + 1] = v], 1)

\* array_push takes the array owned: in place iff exclusive, else a copy.
array_push_ref(h, o) == IF is_exclusive(h, o) THEN o ELSE NewId(h)
array_push(h, o, v) ==
  IF is_exclusive(h, o)
  THEN [h EXCEPT ![o].elems = Append(@, v)]
  ELSE Alloc(dec(h, o), Append(h[o].elems, v), 1)

nat_dec_lt(n, m) == n < m
nat_dec_le(n, m) == n <= m
nat_dec_eq(n, m) == n = m
nat_add(n, m) == n + m
nat_sub(n, m) == IF n >= m THEN n - m ELSE 0

\* An unchecked access of kind k ("r" or "w") to slot i of object o, with
\* the object's length and reference count at the time of the access.
Access(k, h, o, i) ==
  [k |-> k, obj |-> o, i |-> i, n |-> Len(h[o].elems), rc |-> h[o].rc]
InRange(a) == 0 <= a.i /\ a.i < a.n
AllInRange(as) == \A j \in 1..Len(as) : InRange(as[j])

\* The module constant holding the shared empty array (object 1, persistent).
l_array_nil___closed__1 == 1

\* References held by other owners of an argument array.
Ext(sh) == IF sh THEN 1 ELSE 0

NoInp == [a |-> <<>>, b |-> <<>>, z |-> <<>>, l |-> <<>>,
          sha |-> FALSE, shb |-> FALSE, alias |-> FALSE,
          a0 |-> <<>>, g1 |-> "none", g2 |-> "none"]

\* Counters of a call: length reads made for the traversal, retains and
\* releases of the callable, references the engine holds on the accumulator.
NoCnt == [sz |-> 0, finc |-> 0, fdec |-> 0, arc |-> 0]

nil_constant_unmarked == [rc |-> 1, pers |-> FALSE, elems |-> <<>>]

\* The object _init_l_array_nil___closed__1 makes, marked persistent.
nil_constant_object == [rc |-> 1, pers |-> TRUE, elems |-> <<>>]

(***************************************************************************)
(* The module initializers. ini holds each module's _G_initialized flag,   *)
(* the number of times each module constant has been assigned, and the log *)
(* of the initializer calls made.                                          *)
(***************************************************************************)
Worlds == {"ok", "error"}

\* The state at program load: flags false, constants unassigned.
Loaded ==
  [g_array |-> FALSE, g_char |-> FALSE,
   nil |-> 0, repr |-> 0, inhabited |-> 0, inhabited_boxed |-> 0,
   log |-> <<>>]

\* The initializers of other modules a module initializer calls, in order;
\* the world is tested for an error after each but the last.
ArrayDeps == 6
CharDeps == 1

io_result_is_error(w) == w = "error"

\* initialize_init_data_array_basic(w): fail is the dependency that returns
\* an error world (0: none does). The result is the new state and the world
\* returned.
initialize_init_data_array_basic(s, w, fail) ==
  IF s.g_array THEN [s |-> s, w |-> w]
  ELSE LET s1 == [s EXCEPT !.g_array = TRUE]
       IN IF io_result_is_error(w) THEN [s |-> s1, w |-> w]
          ELSE IF fail \in 1..(ArrayDeps - 1) THEN [s |-> s1, w |-> "error"]
          ELSE [s |-> [s1 EXCEPT !.nil = @ + 1, !.repr = @ + 1],
                w |-> IF fail = ArrayDeps THEN "error" ELSE w]

\* initialize_init_data_char_basic(w)
initialize_init_data_char_basic(s, w, fail) ==
  IF s.g_char THEN [s |-> s, w |-> w]
  ELSE LET s1 == [s EXCEPT !.g_char = TRUE]
       IN IF io_result_is_error(w) THEN [s |-> s1, w |-> w]
          ELSE [s |-> [s1 EXCEPT !.inhabited = @ + 1,
                                 !.inhabited_boxed = @ + 1],
                w |-> IF fail = CharDeps THEN "error" ELSE w]

\* The state after both initializers have run on a good world with no
\* failing dependency.
Initialized ==
  initialize_init_data_char_basic(
    initialize_init_data_array_basic(Loaded, "ok", 0).s, "ok", 0).s

Init ==
  /\ op = "none"
  /\ pc = "idle"
  /\ heap = <<nil_constant_object>>
  /\ f = "none"
  /\ frc = 0
  /\ x_a = 0
  /\ x_b = 0
  /\ x_it = 0
  /\ x_out = 0
  /\ idx = 0
  /\ acc = <<>>
  /\ lst = <<>>
  /\ res_arr = 0
  /\ res_val = <<>>
  /\ inp = NoInp
  /\ chain = <<>>
  /\ wlog = <<>>
  /\ clog = <<>>
  /\ alog = <<>>
  /\ cnt = NoCnt
  /\ res_prev = 0
  /\ ini = Initialized

\* An out-of-range unchecked access is undefined behaviour: the call stops
\* in the state "ub", of which nothing is promised.
Undefined ==
  /\ pc' = "ub"
  /\ UNCHANGED <<heap, frc, x_out, idx, acc, lst, wlog, clog>>

(***************************************************************************)
(* array.iterate: the forward traversal engine                             *)
(***************************************************************************)
iterate_continue_always(i, n) == i <= n

\* The loop's test of the index against the length just read.
iterate_continue(i, n) == nat_dec_lt(i, n)

iterate_next_skip(i) == nat_add(i, 2)

\* The index of the next step.
iterate_next(i) == nat_add(i, 1)

iterate_retain_missing(n) == n

\* lean::inc(x_1): the references held on the callable after the retain
\* that precedes its invocation.
iterate_retain(n) == n + 1

iterate_apply_acc_first(g, i, elem, a) == apply_3(g, Leaf(i), a, elem)

iterate_acc_pass_retained(n) == n + 1

\* x_3 goes to apply_3 as it is, with no lean::inc: the references on the
\* accumulator at the invocation.
iterate_acc_pass(n) == n

\* The loop's invocation of the callable.
iterate_apply(g, i, elem, a) == apply_3(g, Leaf(i), elem, a)

Call_iterate ==
  /\ pc = "idle"
  /\ \E es \in Arrays, g \in Fun3, z \in Vals, sh \in BOOLEAN :
       LET a == NewId(heap)
           h0 == Alloc(heap, es, 1 + Ext(sh))
       IN /\ heap' = h0
          /\ op' = "iterate"
          /\ pc' = "loop"
          /\ f' = g
          /\ frc' = 1
          /\ x_a' = a
          /\ x_it' = a
          /\ idx' = 0
          /\ acc' = Leaf(z)
          /\ inp' = [NoInp EXCEPT !.a = es, !.z = Leaf(z), !.sha = sh]
          /\ chain' = <<"iterate">>
  /\ clog' = <<>>
  /\ alog' = <<>>
  /\ cnt' = [NoCnt EXCEPT !.arc = 1]
  /\ UNCHANGED <<x_b, x_out, lst, res_arr, res_val, wlog, res_prev>>
  /\ UNCHANGED ini

Step_iterate ==
  /\ pc = "loop"
  /\ op = "iterate"
  /\ LET h1 == inc(heap, x_it)
         x_5 == array_sz(h1, x_it)
         h2 == array_sz_heap(h1, x_it)
         as == <<Access("r", h2, x_it, idx)>>
     IN /\ iterate_continue(idx, x_5)
        /\ alog' = alog \o as
        /\ cnt' = [cnt EXCEPT !.sz = @ + 1, !.finc = @ + 1,
                              !.arc = (iterate_acc_pass(@) - 1) + 1]
        /\ IF AllInRange(as)
           THEN LET x_12 == iterate_next(idx)
                    x_13 == array_read(h2, x_it, idx)
                    x_15 == iterate_apply(f, idx, x_13, acc)
                IN /\ idx' = x_12
                   /\ acc' = x_15
                   /\ heap' = h2
                   /\ frc' = iterate_retain(frc) - 1
                   /\ clog' = Append(clog, [i |-> idx, n |-> x_5,
                                            rc |-> iterate_retain(frc),
                                            a_in |-> acc, a_out |-> x_15,
                                            arc |-> iterate_acc_pass(cnt.arc)])
                   /\ UNCHANGED <<pc, x_out, lst, wlog>>
           ELSE Undefined
  /\ UNCHANGED <<op, f, x_a, x_b, x_it, res_arr, res_val, inp, chain,
                 res_prev>>
  /\ UNCHANGED ini

Exit_iterate ==
  /\ pc = "loop"
  /\ op = "iterate"
  /\ LET h1 == inc(heap, x_it)
         x_5 == array_sz(h1, x_it)
         h2 == array_sz_heap(h1, x_it)
     IN /\ ~iterate_continue(idx, x_5)
        /\ heap' = dec(h2, x_it)
        /\ frc' = frc - 1
        /\ cnt' = [cnt EXCEPT !.sz = @ + 1, !.fdec = @ + 1, !.arc = @ - 1]
        /\ res_val' = acc
        /\ pc' = "done"
  /\ UNCHANGED <<op, f, x_a, x_b, x_it, x_out, idx, acc, lst, res_arr,
                 inp, chain, wlog, clog, alog, res_prev>>
  /\ UNCHANGED ini

(***************************************************************************)
(* array.rev_iterate: the reverse traversal engine                         *)
(***************************************************************************)
rev_iterate_start_plus(h, a) == array_get_size(h, a) + 1

\* The counter the descending loop starts from: the length read at entry.
rev_iterate_start(h, a) == array_get_size(h, a)

\* The loop's test of the counter.
rev_iterate_at_end(n) == nat_dec_eq(n, 0)

rev_iterate_prev_skip(n) == nat_sub(n, 2)

\* The index visited by a step: the counter less one.
rev_iterate_prev(n) == nat_sub(n, 1)

\* x_4 goes to apply_3 as it is, with no lean::inc: the references on the
\* accumulator at the invocation.
rev_iterate_acc_pass(n) == n

\* The loop's invocation of the callable.
rev_iterate_apply(g, i, elem, a) == apply_3(g, Leaf(i), elem, a)

Call_rev__iterate ==
  /\ pc = "idle"
  /\ \E es \in Arrays, g \in Fun3, z \in Vals, sh \in BOOLEAN :
       LET a == NewId(heap)
           h0 == Alloc(heap, es, 1 + Ext(sh))
       IN /\ heap' = h0
          /\ op' = "rev_iterate"
          /\ pc' = "loop"
          /\ f' = g
          /\ frc' = 1
          /\ x_a' = a
          /\ x_it' = a
          /\ idx' = rev_iterate_start(h0, a)
          /\ acc' = Leaf(z)
          /\ inp' = [NoInp EXCEPT !.a = es, !.z = Leaf(z), !.sha = sh]
          /\ chain' = <<"rev_iterate">>
  /\ clog' = <<>>
  /\ alog' = <<>>
  /\ cnt' = [NoCnt EXCEPT !.sz = 1, !.arc = 1]
  /\ UNCHANGED <<x_b, x_out, lst, res_arr, res_val, wlog, res_prev>>
  /\ UNCHANGED ini

Step_rev__iterate ==
  /\ pc = "loop"
  /\ op = "rev_iterate"
  /\ ~rev_iterate_at_end(idx)
  /\ LET x_8 == rev_iterate_prev(idx)
         as == <<Access("r", heap, x_it, x_8)>>
     IN /\ alog' = alog \o as
        /\ cnt' = [cnt EXCEPT !.finc = @ + 1,
                              !.arc = (rev_iterate_acc_pass(@) - 1) + 1]
        /\ IF AllInRange(as)
           THEN LET x_10 == array_read(heap, x_it, x_8)
                    x_13 == rev_iterate_apply(f, x_8, x_10, acc)
                IN /\ idx' = x_8
                   /\ acc' = x_13
                   /\ frc' = (frc + 1) - 1
                   /\ clog' = Append(clog, [i |-> x_8, n |-> idx,
                                            rc |-> frc + 1,
                                            a_in |-> acc, a_out |-> x_13,
                                            arc |-> rev_iterate_acc_pass(cnt.arc)])
                   /\ UNCHANGED <<pc, heap, x_out, lst, wlog>>
           ELSE Undefined
  /\ UNCHANGED <<op, f, x_a, x_b, x_it, res_arr, res_val, inp, chain,
                 res_prev>>
  /\ UNCHANGED ini

Exit_rev__iterate ==
  /\ pc = "loop"
  /\ op = "rev_iterate"
  /\ rev_iterate_at_end(idx)
  /\ frc' = frc - 1
  /\ cnt' = [cnt EXCEPT !.fdec = @ + 1, !.arc = @ - 1]
  /\ res_val' = acc
  /\ pc' = "done"
  /\ UNCHANGED <<op, heap, f, x_a, x_b, x_it, x_out, idx, acc, lst, res_arr,
                 inp, chain, wlog, clog, alog, res_prev>>
  /\ UNCHANGED ini

(***************************************************************************)
(* array.foldl                                                             *)
(***************************************************************************)
foldl_entry_twice(h, a) == inc(inc(h, a), a)

\* l_array_foldl___rarg: lean::inc(x_0) before the loop is entered.
foldl_entry(h, a) == inc(h, a)

foldl_apply_swapped(g, elem, a) == apply_2(g, a, elem)

\* The loop's invocation of the callable on the element read and the
\* accumulator.
foldl_apply(g, elem, a) == apply_2(g, elem, a)

Call_foldl ==
  /\ pc = "idle"
  /\ \E es \in Arrays, g \in Fun2, z \in Vals, sh \in BOOLEAN :
       LET a == NewId(heap)
           h0 == Alloc(heap, es, 1 + Ext(sh))
       IN /\ heap' = foldl_entry(h0, a)
          /\ op' = "foldl"
          /\ pc' = "loop"
          /\ f' = g
          /\ frc' = 1
          /\ x_a' = a
          /\ x_it' = a
          /\ idx' = 0
          /\ acc' = Leaf(z)
          /\ inp' = [NoInp EXCEPT !.a = es, !.z = Leaf(z), !.sha = sh]
          /\ chain' = <<"foldl">>
  /\ clog' = <<>>
  /\ alog' = <<>>
  /\ cnt' = NoCnt
  /\ UNCHANGED <<x_b, x_out, lst, res_arr, res_val, wlog, res_prev>>
  /\ UNCHANGED ini

Step_foldl ==
  /\ pc = "loop"
  /\ op = "foldl"
  /\ LET h1 == inc(heap, x_it)
         x_6 == array_sz(h1, x_it)
         h2 == array_sz_heap(h1, x_it)
         as == <<Access("r", h2, x_it, idx)>>
     IN /\ nat_dec_lt(idx, x_6)
        /\ alog' = alog \o as
        /\ cnt' = [cnt EXCEPT !.sz = @ + 1, !.finc = @ + 1]
        /\ IF AllInRange(as)
           THEN LET x_13 == idx + 1
                    x_14 == array_read(h2, x_it, idx)
                    x_17 == foldl_apply(f, x_14, acc)
                IN /\ idx' = x_13
                   /\ acc' = x_17
                   /\ heap' = h2
                   /\ frc' = (frc + 1) - 1
                   /\ clog' = Append(clog, [i |-> idx, n |-> x_6,
                                            rc |-> frc + 1])
                   /\ UNCHANGED <<pc, x_out, lst, wlog>>
           ELSE Undefined
  /\ UNCHANGED <<op, f, x_a, x_b, x_it, res_arr, res_val, inp, chain,
                 res_prev>>
  /\ UNCHANGED ini

Exit_foldl ==
  /\ pc = "loop"
  /\ op = "foldl"
  /\ LET h1 == inc(heap, x_it)
         x_6 == array_sz(h1, x_it)
         h2 == array_sz_heap(h1, x_it)
     IN /\ ~nat_dec_lt(idx, x_6)
        /\ heap' = dec(dec(h2, x_it), x_a)
        /\ frc' = frc - 1
        /\ cnt' = [cnt EXCEPT !.sz = @ + 1, !.fdec = @ + 1]
        /\ res_val' = acc
        /\ pc' = "done"
  /\ UNCHANGED <<op, f, x_a, x_b, x_it, x_out, idx, acc, lst, res_arr,
                 inp, chain, wlog, clog, alog, res_prev>>
  /\ UNCHANGED ini

(***************************************************************************)
(* array.rev_foldl                                                         *)
(***************************************************************************)
rev_foldl_apply_swapped(g, elem, a) == apply_2(g, a, elem)

\* The loop's invocation of the callable on the element read and the
\* accumulator.
rev_foldl_apply(g, elem, a) == apply_2(g, elem, a)

Call_rev__foldl ==
  /\ pc = "idle"
  /\ \E es \in Arrays, g \in Fun2, z \in Vals, sh \in BOOLEAN :
       LET a == NewId(heap)
           h0 == Alloc(heap, es, 1 + Ext(sh))
       IN /\ heap' = h0
          /\ op' = "rev_foldl"
          /\ pc' = "loop"
          /\ f' = g
          /\ frc' = 1
          /\ x_a' = a
          /\ x_it' = a
          /\ idx' = array_get_size(h0, a)
          /\ acc' = Leaf(z)
          /\ inp' = [NoInp EXCEPT !.a = es, !.z = Leaf(z), !.sha = sh]
          /\ chain' = <<"rev_foldl">>
  /\ clog' = <<>>
  /\ alog' = <<>>
  /\ cnt' = [NoCnt EXCEPT !.sz = 1]
  /\ UNCHANGED <<x_b, x_out, lst, res_arr, res_val, wlog, res_prev>>
  /\ UNCHANGED ini

Step_rev__foldl ==
  /\ pc = "loop"
  /\ op = "rev_foldl"
  /\ ~nat_dec_eq(idx, 0)
  /\ LET x_9 == idx - 1
         as == <<Access("r", heap, x_it, x_9)>>
     IN /\ alog' = alog \o as
        /\ cnt' = [cnt EXCEPT !.finc = @ + 1]
        /\ IF AllInRange(as)
           THEN LET x_11 == array_read(heap, x_it, x_9)
                    x_13 == rev_foldl_apply(f, x_11, acc)
                IN /\ idx' = x_9
                   /\ acc' = x_13
                   /\ frc' = (frc + 1) - 1
                   /\ clog' = Append(clog, [i |-> x_9, n |-> idx,
                                            rc |-> frc + 1])
                   /\ UNCHANGED <<pc, heap, x_out, lst, wlog>>
           ELSE Undefined
  /\ UNCHANGED <<op, f, x_a, x_b, x_it, res_arr, res_val, inp, chain,
                 res_prev>>
  /\ UNCHANGED ini

Exit_rev__foldl ==
  /\ pc = "loop"
  /\ op = "rev_foldl"
  /\ nat_dec_eq(idx, 0)
  /\ frc' = frc - 1
  /\ cnt' = [cnt EXCEPT !.fdec = @ + 1]
  /\ res_val' = acc
  /\ pc' = "done"
  /\ UNCHANGED <<op, heap, f, x_a, x_b, x_it, x_out, idx, acc, lst, res_arr,
                 inp, chain, wlog, clog, alog, res_prev>>
  /\ UNCHANGED ini

(***************************************************************************)
(* array.map                                                               *)
(***************************************************************************)
map_entry_released(h, a) == dec(h, a)

\* l_array_map___rarg: lean::inc(x_1) twice before the loop is entered.
map_entry(h, a) == inc(inc(h, a), a)

map_elem_first(h, g, it, i) == apply_1(g, array_read(h, it, 0))

\* The value the loop writes at index i: the callable on the element read
\* from the traversed array.
map_elem(h, g, it, i) == apply_1(g, array_read(h, it, i))

map_next_skip(i) == nat_add(i, 2)

\* The index of the loop's next step.
map_next(i) == nat_add(i, 1)

\* The argument of a call of array.map is a new array, the shared empty
\* array, the result of a preceding array.map (map after map), or, after
\* two maps, a new array equal to the first one's argument, to be mapped
\* with the composition of the two callables.
Call_map ==
  /\ \/ /\ pc = "idle"
        /\ \E es \in Arrays, g \in Fun1, sh \in BOOLEAN, nl \in BOOLEAN :
             /\ nl => (es = <<>> /\ ~sh)
             /\ LET a == IF nl THEN l_array_nil___closed__1 ELSE NewId(heap)
                    h0 == IF nl THEN heap ELSE Alloc(heap, es, 1 + Ext(sh))
                IN /\ heap' = map_entry(h0, a)
                   /\ x_a' = a
                   /\ f' = g
                   /\ inp' = [NoInp EXCEPT !.a = es, !.a0 = es, !.sha = sh,
                                           !.g1 = g]
                   /\ chain' = <<"map">>
                   /\ res_prev' = res_prev
     \/ /\ pc = "done"
        /\ chain = <<"map">>
        /\ \E g \in Fun1 :
             /\ heap' = map_entry(heap, res_arr)
             /\ x_a' = res_arr
             /\ f' = g
             /\ inp' = [inp EXCEPT !.a = heap[res_arr].elems,
                                   !.sha = (heap[res_arr].rc > 1),
                                   !.g2 = g]
             /\ chain' = <<"map", "map">>
             /\ res_prev' = res_prev
     \/ /\ pc = "done"
        /\ chain = <<"map", "map">>
        /\ LET a == NewId(heap)
               h0 == Alloc(heap, inp.a0, 1)
           IN /\ heap' = map_entry(h0, a)
              /\ x_a' = a
              /\ f' = "comp"
              /\ inp' = [inp EXCEPT !.a = inp.a0, !.sha = FALSE]
              /\ chain' = <<"map", "map", "map">>
              /\ res_prev' = res_arr
  /\ op' = "map"
  /\ pc' = "loop"
  /\ frc' = 1
  /\ x_it' = x_a'
  /\ x_out' = x_a'
  /\ idx' = 0
  /\ wlog' = <<>>
  /\ clog' = <<>>
  /\ alog' = <<>>
  /\ cnt' = NoCnt
  /\ UNCHANGED <<x_b, acc, lst, res_arr, res_val>>
  /\ UNCHANGED ini

Step_map ==
  /\ pc = "loop"
  /\ op = "map"
  /\ LET h1 == inc(heap, x_it)
         x_6 == array_sz(h1, x_it)
         h2 == array_sz_heap(h1, x_it)
         as == <<Access("r", h2, x_it, idx), Access("w", h2, x_out, idx)>>
     IN /\ nat_dec_lt(idx, x_6)
        /\ alog' = alog \o as
        /\ cnt' = [cnt EXCEPT !.sz = @ + 1, !.finc = @ + 1]
        /\ IF AllInRange(as)
           THEN LET x_13 == map_next(idx)
                    x_16 == map_elem(h2, f, x_it, idx)
                IN /\ heap' = array_write(h2, x_out, idx, x_16)
                   /\ x_out' = array_write_ref(h2, x_out)
                   /\ wlog' = Append(wlog, [obj |-> x_out, rc |-> h2[x_out].rc,
                                            i |-> idx])
                   /\ idx' = x_13
                   /\ frc' = (frc + 1) - 1
                   /\ clog' = Append(clog, [i |-> idx, n |-> x_6,
                                            rc |-> frc + 1])
                   /\ UNCHANGED <<pc, acc, lst>>
           ELSE Undefined
  /\ UNCHANGED <<op, f, x_a, x_b, x_it, res_arr, res_val, inp, chain,
                 res_prev>>
  /\ UNCHANGED ini

Exit_map ==
  /\ pc = "loop"
  /\ op = "map"
  /\ LET h1 == inc(heap, x_it)
         x_6 == array_sz(h1, x_it)
         h2 == array_sz_heap(h1, x_it)
     IN /\ ~nat_dec_lt(idx, x_6)
        /\ heap' = dec(dec(h2, x_it), x_a)
        /\ frc' = frc - 1
        /\ cnt' = [cnt EXCEPT !.sz = @ + 1, !.fdec = @ + 1]
        /\ res_arr' = x_out
        /\ pc' = "done"
  /\ UNCHANGED <<op, f, x_a, x_b, x_it, x_out, idx, acc, lst, res_val,
                 inp, chain, wlog, clog, alog, res_prev>>
  /\ UNCHANGED ini

(***************************************************************************)
(* array.foreach                                                           *)
(***************************************************************************)
foreach_entry_none(h, a) == h

\* l_array_foreach___rarg: lean::inc(x_0) twice before the loop is entered.
foreach_entry(h, a) == inc(inc(h, a), a)

foreach_elem_noindex(h, g, it, i) == apply_2(g, Leaf(0), array_read(h, it, i))

\* The value the loop writes at index i: the callable on the index and the
\* element read from the traversed array.
foreach_elem(h, g, it, i) == apply_2(g, Leaf(i), array_read(h, it, i))

foreach_next_same(i) == nat_add(i, 0)

\* The index of the loop's next step.
foreach_next(i) == nat_add(i, 1)

Call_foreach ==
  /\ pc = "idle"
  /\ \E es \in Arrays, g \in FunIdx, sh \in BOOLEAN :
       LET a == NewId(heap)
           h0 == Alloc(heap, es, 1 + Ext(sh))
       IN /\ heap' = foreach_entry(h0, a)
          /\ op' = "foreach"
          /\ pc' = "loop"
          /\ f' = g
          /\ frc' = 1
          /\ x_a' = a
          /\ x_it' = a
          /\ x_out' = a
          /\ idx' = 0
          /\ inp' = [NoInp EXCEPT !.a = es, !.sha = sh]
          /\ chain' = <<"foreach">>
  /\ clog' = <<>>
  /\ alog' = <<>>
  /\ cnt' = NoCnt
  /\ UNCHANGED <<x_b, acc, lst, res_arr, res_val, wlog, res_prev>>
  /\ UNCHANGED ini

Step_foreach ==
  /\ pc = "loop"
  /\ op = "foreach"
  /\ LET h1 == inc(heap, x_it)
         x_6 == array_sz(h1, x_it)
         h2 == array_sz_heap(h1, x_it)
         as == <<Access("r", h2, x_it, idx), Access("w", h2, x_out, idx)>>
     IN /\ nat_dec_lt(idx, x_6)
        /\ alog' = alog \o as
        /\ cnt' = [cnt EXCEPT !.sz = @ + 1, !.finc = @ + 1]
        /\ IF AllInRange(as)
           THEN LET x_13 == foreach_next(idx)
                    x_17 == foreach_elem(h2, f, x_it, idx)
                IN /\ heap' = array_write(h2, x_out, idx, x_17)
                   /\ x_out' = array_write_ref(h2, x_out)
                   /\ wlog' = Append(wlog, [obj |-> x_out, rc |-> h2[x_out].rc,
                                            i |-> idx])
                   /\ idx' = x_13
                   /\ frc' = (frc + 1) - 1
                   /\ clog' = Append(clog, [i |-> idx, n |-> x_6,
                                            rc |-> frc + 1])
                   /\ UNCHANGED <<pc, acc, lst>>
           ELSE Undefined
  /\ UNCHANGED <<op, f, x_a, x_b, x_it, res_arr, res_val, inp, chain,
                 res_prev>>
  /\ UNCHANGED ini

Exit_foreach ==
  /\ pc = "loop"
  /\ op = "foreach"
  /\ LET h1 == inc(heap, x_it)
         x_6 == array_sz(h1, x_it)
         h2 == array_sz_heap(h1, x_it)
     IN /\ ~nat_dec_lt(idx, x_6)
        /\ heap' = dec(dec(h2, x_it), x_a)
        /\ frc' = frc - 1
        /\ cnt' = [cnt EXCEPT !.sz = @ + 1, !.fdec = @ + 1]
        /\ res_arr' = x_out
        /\ pc' = "done"
  /\ UNCHANGED <<op, f, x_a, x_b, x_it, x_out, idx, acc, lst, res_val,
                 inp, chain, wlog, clog, alog, res_prev>>
  /\ UNCHANGED ini

(***************************************************************************)
(* array.map2 (array.map_u_2082)                                           *)
(***************************************************************************)
map2_spec1_args_longer(a, b) == [it |-> b, out |-> a]

\* The traversed array and the output buffer handed to each specialisation
\* of the loop by l_array_map_u_2082___rarg: the second array when the
\* first is longer,
map2_spec1_args(a, b) == [it |-> b, out |-> b]

map2_spec2_args_crossed(a, b) == [it |-> b, out |-> a]

\* and the first array otherwise.
map2_spec2_args(a, b) == [it |-> a, out |-> a]

\* The value each specialisation writes at index i.
map2_spec1_elem(h, g, a, it, i) ==
  LET x_15 == array_read(h, it, i)
      x_16 == array_read(h, a, i)
  IN apply_2(g, x_16, x_15)

map2_spec2_elem(h, g, b, it, i) ==
  LET x_15 == array_read(h, it, i)
      x_16 == array_read(h, b, i)
  IN apply_2(g, x_16, x_15)

Call_map2 ==
  /\ pc = "idle"
  /\ \E ea \in Arrays, eb \in Arrays, g \in Fun2,
        sa \in BOOLEAN, sb \in BOOLEAN, al \in BOOLEAN, na \in BOOLEAN :
       /\ al => eb = ea
       /\ sb = sa
       /\ na => (ea = <<>> /\ ~sa /\ ~al)
       /\ LET a == IF na THEN l_array_nil___closed__1 ELSE NewId(heap)
              ha == IF na THEN heap
                    ELSE IF al THEN Alloc(heap, ea, 2 + Ext(sa))
                    ELSE Alloc(heap, ea, 1 + Ext(sa))
              b == IF al THEN a ELSE NewId(ha)
              h0 == IF al THEN ha ELSE Alloc(ha, eb, 1 + Ext(sb))
              x_3 == array_get_size(h0, a)
              x_4 == array_get_size(h0, b)
              x_5 == nat_dec_le(x_3, x_4)
              args == IF x_5 THEN map2_spec2_args(a, b) ELSE map2_spec1_args(a, b)
          IN /\ heap' = IF x_5 THEN inc(inc(h0, a), a) ELSE inc(inc(h0, b), b)
             /\ op' = IF x_5 THEN "map2_spec2" ELSE "map2_spec1"
             /\ pc' = "loop"
             /\ f' = g
             /\ frc' = 1
             /\ x_a' = a
             /\ x_b' = b
             /\ x_it' = args.it
             /\ x_out' = args.out
             /\ idx' = 0
             /\ inp' = [NoInp EXCEPT !.a = ea, !.b = eb, !.sha = sa, !.shb = sb,
                                     !.alias = al]
             /\ chain' = <<"map2">>
  /\ clog' = <<>>
  /\ alog' = <<>>
  /\ cnt' = NoCnt
  /\ UNCHANGED <<acc, lst, res_arr, res_val, wlog, res_prev>>
  /\ UNCHANGED ini

Step_map2_spec1 ==
  /\ pc = "loop"
  /\ op = "map2_spec1"
  /\ LET h1 == inc(heap, x_it)
         x_7 == array_sz(h1, x_it)
         h2 == array_sz_heap(h1, x_it)
         as == <<Access("r", h2, x_it, idx), Access("r", h2, x_a, idx),
                 Access("w", h2, x_out, idx)>>
     IN /\ nat_dec_lt(idx, x_7)
        /\ alog' = alog \o as
        /\ cnt' = [cnt EXCEPT !.sz = @ + 1, !.finc = @ + 1]
        /\ IF AllInRange(as)
           THEN LET x_14 == idx + 1
                    x_18 == map2_spec1_elem(h2, f, x_a, x_it, idx)
                IN /\ heap' = array_write(h2, x_out, idx, x_18)
                   /\ x_out' = array_write_ref(h2, x_out)
                   /\ wlog' = Append(wlog, [obj |-> x_out, rc |-> h2[x_out].rc,
                                            i |-> idx])
                   /\ idx' = x_14
                   /\ frc' = (frc + 1) - 1
                   /\ clog' = Append(clog, [i |-> idx, n |-> x_7,
                                            rc |-> frc + 1])
                   /\ UNCHANGED <<pc, acc, lst>>
           ELSE Undefined
  /\ UNCHANGED <<op, f, x_a, x_b, x_it, res_arr, res_val, inp, chain,
                 res_prev>>
  /\ UNCHANGED ini

Step_map2_spec2 ==
  /\ pc = "loop"
  /\ op = "map2_spec2"
  /\ LET h1 == inc(heap, x_it)
         x_7 == array_sz(h1, x_it)
         h2 == array_sz_heap(h1, x_it)
         as == <<Access("r", h2, x_it, idx), Access("r", h2, x_b, idx),
                 Access("w", h2, x_out, idx)>>
     IN /\ nat_dec_lt(idx, x_7)
        /\ alog' = alog \o as
        /\ cnt' = [cnt EXCEPT !.sz = @ + 1, !.finc = @ + 1]
        /\ IF AllInRange(as)
           THEN LET x_14 == idx + 1
                    x_18 == map2_spec2_elem(h2, f, x_b, x_it, idx)
                IN /\ heap' = array_write(h2, x_out, idx, x_18)
                   /\ x_out' = array_write_ref(h2, x_out)
                   /\ wlog' = Append(wlog, [obj |-> x_out, rc |-> h2[x_out].rc,
                                            i |-> idx])
                   /\ idx' = x_14
                   /\ frc' = (frc + 1) - 1
                   /\ clog' = Append(clog, [i |-> idx, n |-> x_7,
                                            rc |-> frc + 1])
                   /\ UNCHANGED <<pc, acc, lst>>
           ELSE Undefined
  /\ UNCHANGED <<op, f, x_a, x_b, x_it, res_arr, res_val, inp, chain,
                 res_prev>>
  /\ UNCHANGED ini

Exit_map2 ==
  /\ pc = "loop"
  /\ op \in {"map2_spec1", "map2_spec2"}
  /\ LET h1 == inc(heap, x_it)
         x_7 == array_sz(h1, x_it)
         h2 == array_sz_heap(h1, x_it)
     IN /\ ~nat_dec_lt(idx, x_7)
        /\ heap' = dec(dec(dec(h2, x_it), x_b), x_a)
        /\ frc' = frc - 1
        /\ cnt' = [cnt EXCEPT !.sz = @ + 1, !.fdec = @ + 1]
        /\ res_arr' = x_out
        /\ pc' = "done"
  /\ UNCHANGED <<op, f, x_a, x_b, x_it, x_out, idx, acc, lst, res_val,
                 inp, chain, wlog, clog, alog, res_prev>>
  /\ UNCHANGED ini

(***************************************************************************)
(* Lists: Nil is the empty sequence, Cons(h, t) puts h in front of t.      *)
(***************************************************************************)
Lists == Arrays

list_nil == <<>>
list_cons(h, t) == <<h>> \o t
list_is_nil(l) == Len(l) = 0
list_head(l) == Head(l)
list_tail(l) == Tail(l)

(***************************************************************************)
(* array.to_list                                                           *)
(***************************************************************************)
to_list_start_short(h, a) ==
  IF array_get_size(h, a) > 0 THEN array_get_size(h, a) - 1 ELSE 0

\* The counter the descending loop starts from.
to_list_start(h, a) == array_get_size(h, a)

to_list_cons_back(h, a, x_8, t) == t \o <<array_read(h, a, x_8)>>

\* One step of the descending loop: the accumulator after visiting x_8.
to_list_cons(h, a, x_8, t) == list_cons(array_read(h, a, x_8), t)

Call_to__list ==
  /\ \/ /\ pc = "idle"
        /\ \E es \in Arrays, sh \in BOOLEAN, nl \in BOOLEAN :
             /\ nl => (es = <<>> /\ ~sh)
             /\ LET a == IF nl THEN l_array_nil___closed__1 ELSE NewId(heap)
                    h0 == IF nl THEN heap ELSE Alloc(heap, es, 1 + Ext(sh))
                IN /\ heap' = h0
                   /\ x_a' = a
                   /\ idx' = to_list_start(h0, a)
                   /\ inp' = [NoInp EXCEPT !.a = es, !.sha = sh]
                   /\ chain' = <<"to_list">>
     \/ /\ pc = "done"
        /\ res_arr # 0
        /\ chain[Len(chain)] \in {"to_array", "push"}
        /\ Len(chain) < MaxChain
        /\ heap' = heap
        /\ x_a' = res_arr
        /\ idx' = to_list_start(heap, res_arr)
        /\ inp' = inp
        /\ chain' = Append(chain, "to_list")
  /\ op' = "to_list"
  /\ pc' = "loop"
  /\ acc' = list_nil
  /\ x_it' = x_a'
  /\ clog' = <<>>
  /\ alog' = <<>>
  /\ cnt' = [NoCnt EXCEPT !.sz = 1]
  /\ UNCHANGED <<f, frc, x_b, x_out, lst, res_arr, res_val, wlog, res_prev>>
  /\ UNCHANGED ini

Step_to__list ==
  /\ pc = "loop"
  /\ op = "to_list"
  /\ ~nat_dec_eq(idx, 0)
  /\ LET x_8 == nat_sub(idx, 1)
         as == <<Access("r", heap, x_it, x_8)>>
     IN /\ alog' = alog \o as
        /\ IF AllInRange(as)
           THEN /\ idx' = x_8
                /\ acc' = to_list_cons(heap, x_it, x_8, acc)
                /\ clog' = Append(clog, [i |-> x_8, n |-> idx, rc |-> 0])
                /\ UNCHANGED <<pc, heap, frc, x_out, lst, wlog>>
           ELSE Undefined
  /\ UNCHANGED <<op, f, x_a, x_b, x_it, res_arr, res_val, inp, chain, cnt,
                 res_prev>>
  /\ UNCHANGED ini

Exit_to__list ==
  /\ pc = "loop"
  /\ op = "to_list"
  /\ nat_dec_eq(idx, 0)
  /\ res_val' = acc
  /\ res_arr' = 0
  /\ pc' = "done"
  /\ UNCHANGED <<op, heap, f, frc, x_a, x_b, x_it, x_out, idx, acc, lst,
                 inp, chain, wlog, clog, alog, cnt, res_prev>>
  /\ UNCHANGED ini

(***************************************************************************)
(* list.to_array                                                           *)
(***************************************************************************)
to_array_at_end_early(l) == Len(l) <= 1

\* The loop's test for the end of the list.
to_array_at_end(l) == list_is_nil(l)

Call_to__array ==
  /\ \/ /\ pc = "idle"
        /\ \E l \in Lists :
             /\ lst' = l
             /\ inp' = [NoInp EXCEPT !.l = l]
             /\ chain' = <<"to_array">>
     \/ /\ pc = "done"
        /\ res_arr = 0
        /\ chain[Len(chain)] = "to_list"
        /\ Len(chain) < MaxChain
        /\ lst' = res_val
        /\ inp' = [inp EXCEPT !.l = res_val]
        /\ chain' = Append(chain, "to_array")
  /\ op' = "to_array"
  /\ pc' = "loop"
  /\ x_out' = l_array_nil___closed__1
  /\ clog' = <<>>
  /\ alog' = <<>>
  /\ cnt' = NoCnt
  /\ UNCHANGED <<heap, f, frc, x_a, x_b, x_it, idx, acc, res_arr, res_val,
                 wlog, res_prev>>
  /\ UNCHANGED ini

Step_to__array ==
  /\ pc = "loop"
  /\ op = "to_array"
  /\ ~to_array_at_end(lst)
  /\ LET x_2 == list_head(lst)
         x_4 == list_tail(lst)
     IN /\ heap' = array_push(heap, x_out, x_2)
        /\ x_out' = array_push_ref(heap, x_out)
        /\ lst' = x_4
        /\ clog' = Append(clog, [i |-> Len(heap[x_out].elems),
                                 n |-> Len(lst), rc |-> 0])
  /\ UNCHANGED <<op, pc, f, frc, x_a, x_b, x_it, idx, acc, res_arr, res_val,
                 inp, chain, wlog, alog, cnt, res_prev>>
  /\ UNCHANGED ini

Exit_to__array ==
  /\ pc = "loop"
  /\ op = "to_array"
  /\ to_array_at_end(lst)
  /\ res_arr' = x_out
  /\ res_val' = list_nil
  /\ pc' = "done"
  /\ UNCHANGED <<op, heap, f, frc, x_a, x_b, x_it, x_out, idx, acc, lst,
                 inp, chain, wlog, clog, alog, cnt, res_prev>>
  /\ UNCHANGED ini

(***************************************************************************)
(* array.push                                                              *)
(***************************************************************************)
Call_push ==
  /\ pc = "idle"
  /\ \E es \in Arrays, v \in Vals, sh \in BOOLEAN, nl \in BOOLEAN :
       /\ Len(es) < MaxLen
       /\ nl => (es = <<>> /\ ~sh)
       /\ LET x_1 == IF nl THEN l_array_nil___closed__1 ELSE NewId(heap)
              h0 == IF nl THEN heap ELSE Alloc(heap, es, 1 + Ext(sh))
              x_2 == Leaf(v)
          IN /\ heap' = array_push(h0, x_1, x_2)
             /\ res_arr' = array_push_ref(h0, x_1)
             /\ x_a' = x_1
             /\ inp' = [NoInp EXCEPT !.a = es, !.z = x_2, !.sha = sh]
  /\ op' = "push"
  /\ pc' = "done"
  /\ chain' = <<"push">>
  /\ clog' = <<>>
  /\ alog' = <<>>
  /\ cnt' = NoCnt
  /\ UNCHANGED <<f, frc, x_b, x_it, x_out, idx, acc, lst, res_val, wlog,
                 res_prev>>
  /\ UNCHANGED ini

(***************************************************************************)
(* Another owner of the traversed array (the callable's closure, say)      *)
(* spends its reference on a write while the loop runs: slot 0 gets a      *)
(* value no input holds.                                                   *)
(***************************************************************************)
Owner_write ==
  /\ pc = "loop"
  /\ op \in {"iterate", "foldl", "map", "foreach"}
  /\ inp.sha
  /\ Len(heap[x_a].elems) > 0
  /\ heap' = array_write(heap, x_a, 0, Leaf(0))
  /\ inp' = [inp EXCEPT !.sha = FALSE]
  /\ UNCHANGED <<op, pc, f, frc, x_a, x_b, x_it, x_out, idx, acc, lst,
                 res_arr, res_val, chain, wlog, clog, alog, cnt, res_prev>>
  /\ UNCHANGED ini

(***************************************************************************)
(* The caller takes the result and goes on to its next call: the registers *)
(* of the finished call are dead, the module's constant lives on.          *)
(***************************************************************************)
Return ==
  /\ pc = "done"
  /\ heap' = <<heap[l_array_nil___closed__1]>>
  /\ op' = "none"
  /\ pc' = "idle"
  /\ f' = "none"
  /\ frc' = 0
  /\ x_a' = 0
  /\ x_b' = 0
  /\ x_it' = 0
  /\ x_out' = 0
  /\ idx' = 0
  /\ acc' = <<>>
  /\ lst' = <<>>
  /\ res_arr' = 0
  /\ res_val' = <<>>
  /\ inp' = NoInp
  /\ chain' = <<>>
  /\ wlog' = <<>>
  /\ clog' = <<>>
  /\ alog' = <<>>
  /\ cnt' = NoCnt
  /\ res_prev' = 0
  /\ UNCHANGED ini

(***************************************************************************)
(* char.of_nat and char.to_lower. Numbers are written in base 2^16, most   *)
(* significant digit first: a natural number has three digits here, a      *)
(* 32-bit value the two low ones.                                          *)
(***************************************************************************)
Digit == 65536

\* The values the digits of an input are drawn from.
LowDigits == {0, 64, 65, 66, 90, 91, 97, 122, 55295, 55296, 57343, 57344,
              65503, 65504, 65535}
MidDigits == {0, 1, 16, 17, 65535}

Nats == {<<d2, d1, d0>> : d2 \in 0..MaxHigh, d1 \in MidDigits, d0 \in LowDigits}
UInt32s == {<<d1, d0>> : d1 \in MidDigits, d0 \in LowDigits}

u32(hi, lo) == <<hi, lo>>

\* lean::uint32_of_nat: the value modulo 2^32.
uint32_of_nat(n) == u32(n[2], n[3])

\* lean::uint32_to_nat
uint32_to_nat(x) == <<0, x[1], x[2]>>

uint32_lt(x, y) == x[1] < y[1] \/ (x[1] = y[1] /\ x[2] < y[2])

char_nat_le(n, m) ==
  \/ n[1] < m[1]
  \/ n[1] = m[1] /\ n[2] < m[2]
  \/ n[1] = m[1] /\ n[2] = m[2] /\ n[3] <= m[3]

\* lean::nat_add of a number and a one-digit number.
char_nat_add(n, k) ==
  LET s0 == n[3] + k
      c0 == s0 \div Digit
      s1 == n[2] + c0
      c1 == s1 \div Digit
  IN <<n[1] + c1, s1 % Digit, s0 % Digit>>

\* The constants of l_char_of__nat and l_char_to__lower.
surrogate_first == u32(0, 55296)
surrogate_last == u32(0, 57343)
scalar_limit == u32(17, 0)
char_zero == u32(0, 0)
upper_a == <<0, 0, 65>>
upper_z == <<0, 0, 90>>
case_offset == 32

of_nat_low_test_inclusive(x) == ~uint32_lt(surrogate_first, x)

\* x_3 = x_1 < 55296
of_nat_low_test(x) == uint32_lt(x, surrogate_first)

l_char_of__nat(x_0) ==
  LET x_1 == uint32_of_nat(x_0)
  IN IF of_nat_low_test(x_1) THEN x_1
     ELSE IF ~uint32_lt(surrogate_last, x_1) THEN char_zero
     ELSE IF uint32_lt(x_1, scalar_limit) THEN x_1
     ELSE char_zero

l_char_to__lower(x_0) ==
  LET x_1 == uint32_to_nat(x_0)
  IN IF ~char_nat_le(upper_a, x_1) THEN x_0
     ELSE IF ~char_nat_le(x_1, upper_z) THEN x_0
     ELSE l_char_of__nat(char_nat_add(x_1, case_offset))

Call_of__nat ==
  /\ pc = "idle"
  /\ \E n \in Nats :
       /\ inp' = [NoInp EXCEPT !.z = n]
       /\ res_val' = l_char_of__nat(n)
  /\ op' = "of_nat"
  /\ pc' = "done"
  /\ chain' = <<"of_nat">>
  /\ clog' = <<>>
  /\ alog' = <<>>
  /\ cnt' = NoCnt
  /\ UNCHANGED <<heap, f, frc, x_a, x_b, x_it, x_out, idx, acc, lst, res_arr,
                 wlog, res_prev>>
  /\ UNCHANGED ini

Call_to__lower ==
  /\ pc = "idle"
  /\ \E c \in UInt32s :
       /\ inp' = [NoInp EXCEPT !.z = c]
       /\ res_val' = l_char_to__lower(c)
  /\ op' = "to_lower"
  /\ pc' = "done"
  /\ chain' = <<"to_lower">>
  /\ clog' = <<>>
  /\ alog' = <<>>
  /\ cnt' = NoCnt
  /\ UNCHANGED <<heap, f, frc, x_a, x_b, x_it, x_out, idx, acc, lst, res_arr,
                 wlog, res_prev>>
  /\ UNCHANGED ini

Next ==
  \/ Call_iterate
  \/ Step_iterate
  \/ Exit_iterate
  \/ Call_rev__iterate
  \/ Step_rev__iterate
  \/ Exit_rev__iterate
  \/ Call_foldl
  \/ Step_foldl
  \/ Exit_foldl
  \/ Call_rev__foldl
  \/ Step_rev__foldl
  \/ Exit_rev__foldl
  \/ Call_map
  \/ Step_map
  \/ Exit_map
  \/ Call_foreach
  \/ Step_foreach
  \/ Exit_foreach
  \/ Call_map2
  \/ Step_map2_spec1
  \/ Step_map2_spec2
  \/ Exit_map2
  \/ Call_to__list
  \/ Step_to__list
  \/ Exit_to__list
  \/ Call_to__array
  \/ Step_to__array
  \/ Exit_to__array
  \/ Call_push
  \/ Call_of__nat
  \/ Call_to__lower
  \/ Owner_write
  \/ Return

Spec == Init /\ [][Next]_vars

\* Every call runs on one thread with nothing to wait for: a call that can
\* take a step takes it.
Running ==
  \/ Step_iterate \/ Exit_iterate
  \/ Step_rev__iterate \/ Exit_rev__iterate
  \/ Step_foldl \/ Exit_foldl
  \/ Step_rev__foldl \/ Exit_rev__foldl
  \/ Step_map \/ Exit_map
  \/ Step_foreach \/ Exit_foreach
  \/ Step_map2_spec1 \/ Step_map2_spec2 \/ Exit_map2
  \/ Step_to__list \/ Exit_to__list
  \/ Step_to__array \/ Exit_to__array

FairSpec == Spec /\ WF_vars(Running)

(***************************************************************************)
(* Calls of the module initializers, from the state at program load.       *)
(***************************************************************************)
InitLoad ==
  /\ op = "none"
  /\ pc = "idle"
  /\ heap = <<>>
  /\ f = "none"
  /\ frc = 0
  /\ x_a = 0
  /\ x_b = 0
  /\ x_it = 0
  /\ x_out = 0
  /\ idx = 0
  /\ acc = <<>>
  /\ lst = <<>>
  /\ res_arr = 0
  /\ res_val = <<>>
  /\ inp = NoInp
  /\ chain = <<>>
  /\ wlog = <<>>
  /\ clog = <<>>
  /\ alog = <<>>
  /\ cnt = NoCnt
  /\ res_prev = 0
  /\ ini = Loaded

\* One call of initialize_init_data_array_basic; the assignment of
\* l_array_nil___closed__1 creates the nil constant.
Initialize_array ==
  /\ Len(ini.log) < MaxInitCalls
  /\ \E w \in Worlds, fail \in 0..ArrayDeps :
       LET r == initialize_init_data_array_basic(ini, w, fail)
       IN /\ ini' = [r.s EXCEPT !.log =
                       Append(@, [m |-> "array", w |-> w, res |-> r.w,
                                  assigned |-> r.s.nil > 0 /\ r.s.repr > 0])]
          /\ heap' = IF r.s.nil > ini.nil THEN <<nil_constant_object>>
                                          ELSE heap
  /\ UNCHANGED <<op, pc, f, frc, x_a, x_b, x_it, x_out, idx, acc, lst,
                 res_arr, res_val, inp, chain, wlog, clog, alog, cnt,
                 res_prev>>

\* One call of initialize_init_data_char_basic.
Initialize_char ==
  /\ Len(ini.log) < MaxInitCalls
  /\ \E w \in Worlds, fail \in 0..CharDeps :
       LET r == initialize_init_data_char_basic(ini, w, fail)
       IN ini' = [r.s EXCEPT !.log =
                    Append(@, [m |-> "char", w |-> w, res |-> r.w,
                               assigned |-> r.s.inhabited > 0
                                            /\ r.s.inhabited_boxed > 0])]
  /\ UNCHANGED <<op, pc, heap, f, frc, x_a, x_b, x_it, x_out, idx, acc, lst,
                 res_arr, res_val, inp, chain, wlog, clog, alog, cnt,
                 res_prev>>

InitNext ==
  \/ Initialize_array
  \/ Initialize_char

InitSpec == InitLoad /\ [][InitNext]_vars

(***************************************************************************)
(* Reference computations used by the properties.                          *)
(***************************************************************************)
Front(s) == SubSeq(s, 1, Len(s) - 1)
Last(s) == s[Len(s)]
Min(n, m) == IF n <= m THEN n ELSE m

RECURSIVE StdLeftFold(_, _, _)
StdLeftFold(g, z, s) ==
  IF Len(s) = 0 THEN z ELSE apply_2(g, StdLeftFold(g, z, Front(s)), Last(s))

RECURSIVE ElemFirstLeftFold(_, _, _)
ElemFirstLeftFold(g, z, s) ==
  IF Len(s) = 0 THEN z ELSE apply_2(g, Last(s), ElemFirstLeftFold(g, z, Front(s)))

RECURSIVE StdRightFold(_, _, _)
StdRightFold(g, z, s) ==
  IF Len(s) = 0 THEN z ELSE apply_2(g, Head(s), StdRightFold(g, z, Tail(s)))

Map2Ops == {"map2_spec1", "map2_spec2"}
ElementWiseOps == {"map", "foreach"} \cup Map2Ops

\* C1 as stated: array.foldl returns the standard left fold
\* f(...f(f(z, a[0]), a[1])..., a[n-1]), the callable applied as
\* f(accumulator, element).
C1_FoldlStdLeftFold ==
  (op = "foldl" /\ pc = "done") => res_val = StdLeftFold(f, inp.z, inp.a)

\* C1 amended: array.foldl visits the elements in index order 0..n-1 and
\* applies the callable as f(element, accumulator): after k steps the
\* accumulator is f(a[k-1], ... f(a[1], f(a[0], z))), and that value for
\* k = n is the result.
C1_FoldlElemFirst ==
  op = "foldl" =>
    /\ acc = ElemFirstLeftFold(f, inp.z, SubSeq(inp.a, 1, idx))
    /\ pc = "done" => res_val = ElemFirstLeftFold(f, inp.z, inp.a)

C1_Witness ==
  /\ op = "foldl"
  /\ pc = "done"
  /\ f = "free2"
  /\ Len(inp.a) >= 2
  /\ res_val = ElemFirstLeftFold(f, inp.z, inp.a)
  /\ res_val # StdLeftFold(f, inp.z, inp.a)

\* C2: array.rev_foldl returns f(a[0], f(a[1], ... f(a[n-1], z))): the
\* callable is applied as f(element, accumulator) with the elements taken
\* in index order n-1 down to 0.
C2_RevFoldlRightFold ==
  op = "rev_foldl" =>
    /\ acc = StdRightFold(f, inp.z, SubSeq(inp.a, idx + 1, Len(inp.a)))
    /\ pc = "done" => res_val = StdRightFold(f, inp.z, inp.a)

C2_Witness ==
  /\ op = "rev_foldl"
  /\ pc = "done"
  /\ f = "free2"
  /\ Len(inp.a) >= 2
  /\ res_val = <<0>> \o inp.a[1] \o StdRightFold(f, inp.z, Tail(inp.a))

\* C3 as stated: array.map2 has at every index i < min(length(a), length(b))
\* the value f(a[i], b[i]), a's element first, whatever the relation of the
\* two lengths.
C3_Map2ArgOrder ==
  (op \in Map2Ops /\ pc = "done") =>
    \A i \in 1..Min(Len(inp.a), Len(inp.b)) :
      heap[res_arr].elems[i] = apply_2(f, inp.a[i], inp.b[i])

\* C4: the result of array.map2 has length min(length(a), length(b)); it is
\* never longer than either input, and equal lengths are kept.
C4_Map2Length ==
  (op \in Map2Ops /\ pc = "done") =>
    /\ Len(heap[res_arr].elems) = Min(Len(inp.a), Len(inp.b))
    /\ Len(heap[res_arr].elems) <= Len(inp.a)
    /\ Len(heap[res_arr].elems) <= Len(inp.b)
    /\ Len(inp.a) = Len(inp.b) => Len(heap[res_arr].elems) = Len(inp.a)

C4_Witness ==
  /\ op = "map2_spec1"
  /\ pc = "done"
  /\ Len(inp.b) >= 1
  /\ Len(inp.a) > Len(inp.b)
  /\ Len(heap[res_arr].elems) = Len(inp.b)

\* C5 as stated: when the input of array.map or array.foreach is uniquely
\* owned at the call, every write of the loop is handed an array of
\* reference count 1 that is the input's own storage, no copy is made, and
\* the result is the input's storage.
C5_InPlaceWhenUnique ==
  (op \in {"map", "foreach"} /\ ~inp.sha) =>
    /\ \A k \in 1..Len(wlog) : wlog[k].rc = 1 /\ wlog[k].obj = x_a
    /\ Len(heap) = x_a
    /\ pc = "done" => res_arr = x_a

\* C6: an array that another owner holds when array.map, array.foreach or
\* array.map2 is called keeps its length and every element, at every step
\* of the operation and after it returns.
C6_SharedInputUnchanged ==
  op \in ElementWiseOps =>
    /\ inp.sha => (heap[x_a].rc >= 1 /\ heap[x_a].elems = inp.a)
    /\ (op \in Map2Ops /\ inp.shb) => (heap[x_b].rc >= 1 /\ heap[x_b].elems = inp.b)

C6_Witness ==
  /\ op = "map"
  /\ pc = "done"
  /\ inp.sha
  /\ Len(inp.a) >= 2
  /\ Len(wlog) = Len(inp.a)
  /\ heap[res_arr].elems # inp.a
  /\ heap[x_a].elems = inp.a

\* C7: to_list(to_array(l)) = l for every list l.
C7_ListRoundTrip ==
  (chain = <<"to_array", "to_list">> /\ pc = "done") => res_val = inp.l

C7_Witness ==
  /\ chain = <<"to_array", "to_list">>
  /\ pc = "done"
  /\ Len(inp.l) >= 2
  /\ inp.l[1] # inp.l[2]
  /\ res_val = inp.l

\* C8: to_array(to_list(a)) = a for every array a: same length and the same
\* element at every index.
C8_ArrayRoundTrip ==
  (chain = <<"to_list", "to_array">> /\ pc = "done") =>
    /\ Len(heap[res_arr].elems) = Len(inp.a)
    /\ \A i \in 1..Len(inp.a) : heap[res_arr].elems[i] = inp.a[i]

C8_Witness ==
  /\ chain = <<"to_list", "to_array">>
  /\ pc = "done"
  /\ Len(inp.a) >= 2
  /\ inp.a[1] # inp.a[2]
  /\ heap[res_arr].elems = inp.a

\* C9: array.to_list builds the list of the array's elements in ascending
\* index order in one descending pass: with the counter at k the accumulator
\* is the list a[k], ..., a[n-1] consed onto Nil, and the accumulator at
\* counter 0 is the result, with no reversal.
C9_ToListDescendingPass ==
  op = "to_list" =>
    /\ acc = SubSeq(heap[x_it].elems, idx + 1, Len(heap[x_it].elems))
    /\ pc = "done" =>
         /\ idx = 0
         /\ res_val = acc
         /\ Len(res_val) = Len(heap[x_a].elems)
         /\ \A k \in 1..Len(res_val) : res_val[k] = heap[x_a].elems[k]

C9_Witness ==
  /\ op = "to_list"
  /\ pc = "loop"
  /\ idx = 1
  /\ Len(acc) >= 2
  /\ acc[1] # acc[2]

\* C10: array.map with the identity function returns an array of the same
\* length with the same element at every index.
C10_MapIdentity ==
  (op = "map" /\ f = "id" /\ pc = "done") =>
    /\ Len(heap[res_arr].elems) = Len(inp.a)
    /\ \A i \in 1..Len(inp.a) : heap[res_arr].elems[i] = inp.a[i]

C10_Witness ==
  /\ op = "map"
  /\ f = "id"
  /\ pc = "done"
  /\ Len(inp.a) >= 2
  /\ inp.a[1] # inp.a[2]
  /\ Len(wlog) = Len(inp.a)
  /\ heap[res_arr].elems = inp.a

\* C11: mapping g over the result of mapping f over an array gives the same
\* array as mapping the composition (g after f) over the original array:
\* the same length and, at every index, g(f(a[i])).
C11_MapFusion ==
  (chain = <<"map", "map", "map">> /\ pc = "done") =>
    /\ heap[res_arr].elems = heap[res_prev].elems
    /\ Len(heap[res_prev].elems) = Len(inp.a0)
    /\ \A i \in 1..Len(inp.a0) :
         heap[res_prev].elems[i] = apply_base(inp.g2, apply_base(inp.g1, inp.a0[i]))

C11_Witness ==
  /\ chain = <<"map", "map", "map">>
  /\ pc = "done"
  /\ Len(inp.a0) >= 3
  /\ inp.a0[2] # inp.a0[3]
  /\ inp.g1 = "free1"
  /\ inp.g2 = "free1b"
  /\ res_prev # res_arr
  /\ heap[res_arr].elems = heap[res_prev].elems

\* C12: array.foreach returns an array of the input's length whose element
\* at every index i is f(i, a[i]) computed from the original a[i]; with a
\* callable that ignores the index and returns the element the result is
\* the input, the empty array included.
C12_ForeachIndexed ==
  (op = "foreach" /\ pc = "done") =>
    /\ Len(heap[res_arr].elems) = Len(inp.a)
    /\ \A i \in 1..Len(inp.a) :
         heap[res_arr].elems[i] = apply_2(f, Leaf(i - 1), inp.a[i])
    /\ f = "snd" => heap[res_arr].elems = inp.a

C12_Witness ==
  /\ op = "foreach"
  /\ pc = "done"
  /\ f = "free2"
  /\ Len(inp.a) >= 3
  /\ inp.a[1] = inp.a[2]
  /\ heap[res_arr].elems[1] # heap[res_arr].elems[2]
  /\ heap[res_arr].elems[3] = apply_2(f, Leaf(2), inp.a[3])

\* C13: on an array of length 0, array.iterate and array.rev_iterate invoke
\* the callable zero times and return exactly the initial accumulator.
C13_EmptyTraversal ==
  (op \in {"iterate", "rev_iterate"} /\ Len(inp.a) = 0) =>
    /\ clog = <<>>
    /\ alog = <<>>
    /\ pc \in {"loop", "done"}
    /\ acc = inp.z
    /\ pc = "done" => res_val = inp.z

C13_Witness ==
  /\ op = "iterate"
  /\ pc = "done"
  /\ Len(inp.a) = 0
  /\ inp.z = Leaf(MaxVal)
  /\ res_val = inp.z
  /\ clog = <<>>

ForwardOps == {"iterate", "foldl", "map", "foreach", "map2_spec1", "map2_spec2"}

ReverseOps == {"rev_iterate", "rev_foldl", "to_list"}

\* The number of indices a call has to visit: the array's length, and for
\* array.map2 the smaller of the two lengths.
TraversalLength ==
  IF op \in Map2Ops THEN Min(Len(inp.a), Len(inp.b))
  ELSE Len(heap[x_it].elems)

\* C14: a forward traversal of an array of length n invokes the callable on
\* the indices 0, 1, ..., n-1 in strictly increasing order, each exactly
\* once; a reverse traversal on n-1, ..., 0 in strictly decreasing order,
\* each exactly once; array.map2 visits exactly 0 .. min(lengths)-1.
C14_VisitOrder ==
  /\ op \in ForwardOps =>
       /\ \A k \in 1..Len(clog) : clog[k].i = k - 1
       /\ pc = "done" => Len(clog) = TraversalLength
  /\ op \in ReverseOps =>
       /\ \A k \in 1..Len(clog) : clog[k].i = TraversalLength - k
       /\ pc = "done" => Len(clog) = TraversalLength

C14_Witness ==
  /\ op = "iterate"
  /\ pc = "done"
  /\ Len(inp.a) >= 3
  /\ Len(clog) = Len(inp.a)
  /\ clog[1].i = 0
  /\ clog[3].i = 2

\* The steps a finished call has taken, against the number it has to take:
\* n invocations for a traversal of n indices, n cons steps for
\* array.to_list, one push step per element of the list for list.to_array.
StepCountAtExit ==
  pc = "done" =>
    /\ op \in ForwardOps \cup ReverseOps => Len(clog) = TraversalLength
    /\ op = "to_array" => Len(clog) = Len(inp.l)

\* C15: every loop terminates: a call that has entered its loop reaches its
\* exit, after exactly n invocations of the callable for the folds, maps
\* and traversals of an array of length n, min(lengths) for array.map2,
\* n cons steps for array.to_list and m push steps for list.to_array of a
\* list of m elements.
C15_Terminates ==
  /\ []StepCountAtExit
  /\ (pc = "loop") ~> (pc = "done")

C15_Witness ==
  /\ op = "to_array"
  /\ pc = "done"
  /\ Len(inp.l) >= 3
  /\ Len(clog) = Len(inp.l)
  /\ lst = <<>>

\* C16: no call reads or writes an array slot outside 0 .. length-1 through
\* the unchecked accessors: every access made by array.iterate,
\* array.rev_iterate, array.foldl, array.rev_foldl, array.to_list,
\* array.map, array.foreach and array.map2 (the read of the longer array and
\* the write into the output included) is at an index below the length the
\* accessed array has at that moment.
C16_AccessInRange ==
  /\ pc # "ub"
  /\ \A k \in 1..Len(alog) : InRange(alog[k])

C16_Witness ==
  /\ op = "map2_spec1"
  /\ pc = "done"
  /\ Len(inp.b) >= 2
  /\ Len(inp.a) > Len(inp.b)
  /\ Len(alog) = 3 * Len(inp.b)
  /\ alog[Len(alog)].k = "w"
  /\ alog[Len(alog)].i = Len(inp.b) - 1

\* C17: the shared empty-array constant is never observed with a length
\* other than 0, whatever calls came before: array.to_list of an array of
\* length 0 is the empty list and list.to_array of the empty list is an
\* array of length 0.
C17_NilConstantEmpty ==
  /\ heap[l_array_nil___closed__1].elems = <<>>
  /\ (op = "to_list" /\ pc = "done" /\ Len(heap[x_a].elems) = 0) =>
       res_val = list_nil
  /\ (chain = <<"to_array">> /\ pc = "done" /\ inp.l = list_nil) =>
       /\ res_arr = l_array_nil___closed__1
       /\ Len(heap[res_arr].elems) = 0

C17_Witness ==
  /\ op = "to_list"
  /\ chain = <<"push", "to_list">>
  /\ pc = "done"
  /\ inp.a = <<>>
  /\ x_a # l_array_nil___closed__1
  /\ heap[x_a].rc = 1
  /\ res_val = list_cons(inp.z, list_nil)
  /\ heap[l_array_nil___closed__1].elems = <<>>

RECURSIVE IterateFold(_, _, _, _)
\* The accumulator after the forward engine has visited the first k
\* elements of es: g(k-1, es[k-1], ... g(0, es[0], z)).
IterateFold(g, es, k, z) ==
  IF k = 0 THEN z
  ELSE apply_3(g, Leaf(k - 1), es[k], IterateFold(g, es, k - 1, z))

\* C18: in the forward engine every invocation of the callable follows a
\* fresh read of the array's length and a successful test index < length;
\* the callable receives (index, array[index], accumulator); the index
\* advances by exactly 1 per invocation; when the test fails the current
\* accumulator is returned unchanged.
C18_ForwardEngine ==
  /\ op \in ForwardOps =>
       /\ cnt.sz = Len(clog) + (IF pc = "done" THEN 1 ELSE 0)
       /\ \A k \in 1..Len(clog) :
            /\ clog[k].n = Len(heap[x_it].elems)
            /\ clog[k].i < clog[k].n
       /\ idx = Len(clog)
  /\ op = "iterate" =>
       /\ acc = IterateFold(f, inp.a, Len(clog), inp.z)
       /\ pc = "done" => res_val = acc

C18_Witness ==
  /\ op = "iterate"
  /\ pc = "done"
  /\ Len(inp.a) >= 2
  /\ inp.a[1] # inp.a[2]
  /\ inp.z # inp.a[2]
  /\ cnt.sz = Len(inp.a) + 1
  /\ res_val = IterateFold(f, inp.a, Len(inp.a), inp.z)

\* C19: the reverse engine (array.rev_iterate, array.rev_foldl,
\* array.to_list) reads the array's length exactly once, at entry; each step
\* decreases the counter by exactly 1 before it reads; the loop stops when
\* the counter is 0; every index read is below the length captured at
\* entry.
C19_ReverseEngine ==
  op \in ReverseOps =>
    /\ cnt.sz = 1
    /\ pc # "ub"
    /\ idx = Len(heap[x_it].elems) - Len(clog)
    /\ \A k \in 1..Len(clog) :
         /\ clog[k].n = Len(heap[x_it].elems) - (k - 1)
         /\ clog[k].i = clog[k].n - 1
         /\ clog[k].i < Len(heap[x_it].elems)
    /\ \A k \in 1..Len(alog) : alog[k].i = clog[k].i /\ alog[k].i < alog[k].n
    /\ pc = "done" => idx = 0

C19_Witness ==
  /\ op = "rev_iterate"
  /\ pc = "done"
  /\ Len(inp.a) >= 3
  /\ cnt.sz = 1
  /\ Len(clog) = Len(inp.a)
  /\ clog[1].i = Len(inp.a) - 1
  /\ idx = 0

CallableOps == ForwardOps \cup {"rev_iterate", "rev_foldl"}

\* C20: the callable is alive (reference count at least 1) at every
\* invocation: a call retains it once before each of its n invocations and
\* releases it exactly once, at the loop's exit.
C20_CallableAlive ==
  op \in CallableOps =>
    /\ \A k \in 1..Len(clog) : clog[k].rc >= 1
    /\ cnt.finc = Len(clog)
    /\ cnt.fdec = (IF pc = "done" THEN 1 ELSE 0)
    /\ frc = (IF pc = "done" THEN 0 ELSE 1)

C20_Witness ==
  /\ op = "map"
  /\ pc = "done"
  /\ Len(inp.a) >= 3
  /\ cnt.finc = Len(inp.a)
  /\ cnt.fdec = 1
  /\ clog[3].rc >= 1
  /\ frc = 0

\* The references to object o that a finished call hands back to its
\* caller as the result.
HandedBack(o) == IF res_arr = o THEN 1 ELSE 0

\* The references the caller of a finished call passed in on object o have
\* each been released or handed back: what is left on o is what other
\* owners hold, plus the result's reference when o is the result.
Settled(o, sh) ==
  ~heap[o].pers => heap[o].rc = Ext(sh) + HandedBack(o)

\* C21: in array.iterate, array.foldl, array.map, array.foreach and
\* array.map2 every array reference the caller passes in is, when the call
\* returns, either released exactly once or handed back as the result; no
\* reference count goes below zero and no array is read or written after its
\* last reference was released. For array.map2 this holds for both arrays,
\* the longer one included.
C21_ReferencesSettled ==
  /\ \A o \in 1..Len(heap) : heap[o].rc >= 0
  /\ \A k \in 1..Len(alog) : alog[k].rc >= 1
  /\ (pc = "done" /\ op \in {"iterate", "foldl", "map", "foreach"}) =>
       /\ Settled(x_a, inp.sha)
       /\ op \in {"map", "foreach"} => heap[res_arr].rc >= 1
  /\ (pc = "done" /\ op \in Map2Ops) =>
       /\ Settled(x_a, inp.sha)
       /\ Settled(x_b, inp.shb)
       /\ heap[res_arr].rc >= 1

C21_Witness ==
  /\ op = "map2_spec1"
  /\ pc = "done"
  /\ Len(inp.b) >= 2
  /\ Len(inp.a) > Len(inp.b)
  /\ x_a # x_b
  /\ ~inp.sha
  /\ heap[x_a].rc = 0
  /\ heap[x_b].rc = 0
  /\ res_arr \notin {x_a, x_b}
  /\ heap[res_arr].rc = 1

\* The element a finished element-wise call must hold at index i (from 1),
\* computed from the original input values at that index.
FromOriginal(i) ==
  CASE op = "map" -> apply_1(f, inp.a[i])
    [] op = "foreach" -> apply_2(f, Leaf(i - 1), inp.a[i])
    [] op = "map2_spec1" -> apply_2(f, inp.a[i], inp.b[i])
    [] op = "map2_spec2" -> apply_2(f, inp.b[i], inp.a[i])

\* C22: in array.map, array.foreach and array.map2, for every visited index
\* the read of the input slot comes before the write of the output slot,
\* and no input slot is read after the output slot of the same index was
\* written; every result element is computed from the original input value
\* at its index.
C22_ReadBeforeWrite ==
  op \in ElementWiseOps =>
    /\ \A k \in 1..Len(alog) :
         alog[k].k = "w" =>
           /\ \E j \in 1..(k - 1) :
                alog[j].k = "r" /\ alog[j].i = alog[k].i /\ alog[j].obj = x_it
           /\ \A j \in (k + 1)..Len(alog) :
                alog[j].k = "r" => alog[j].i # alog[k].i
    /\ pc = "done" =>
         \A i \in 1..TraversalLength : heap[res_arr].elems[i] = FromOriginal(i)

C22_Witness ==
  /\ op = "map2_spec2"
  /\ pc = "done"
  /\ inp.alias
  /\ Len(inp.a) >= 2
  /\ inp.a[1] # inp.a[2]
  /\ Len(alog) = 3 * Len(inp.a)
  /\ alog[4].k = "r"
  /\ alog[4].i = 1
  /\ alog[3].k = "w"
  /\ alog[3].i = 0
  /\ heap[res_arr].elems[2] = apply_2(f, inp.b[2], inp.a[2])

\* C23: the traversal engines thread the accumulator linearly: the value
\* passed to the callable at each step is the value the previous invocation
\* returned (the initial accumulator at the first step); the engine retains
\* and releases no accumulator and holds one accumulator value at a time, so
\* an accumulator that is uniquely owned when a step returns it is uniquely
\* owned when it is handed to the next step, and the last one is returned.
C23_AccumulatorLinear ==
  op \in {"iterate", "rev_iterate"} =>
    /\ \A k \in 1..Len(clog) :
         /\ clog[k].a_in = (IF k = 1 THEN inp.z ELSE clog[k - 1].a_out)
         /\ clog[k].arc = 1
    /\ acc = (IF clog = <<>> THEN inp.z ELSE clog[Len(clog)].a_out)
    /\ cnt.arc = (IF pc = "done" THEN 0 ELSE 1)
    /\ pc = "done" => res_val = acc

C23_Witness ==
  /\ op = "rev_iterate"
  /\ pc = "done"
  /\ Len(clog) >= 3
  /\ clog[1].a_in = inp.z
  /\ clog[3].a_in = clog[2].a_out
  /\ clog[3].a_in # clog[2].a_in
  /\ clog[3].arc = 1
  /\ res_val = clog[Len(clog)].a_out

\* The contents the traversed array of a forward call had at entry.
TraversedAtEntry ==
  CASE op = "map2_spec1" -> inp.b
    [] op = "map2_spec2" -> inp.a
    [] OTHER -> inp.a

\* C24: during a forward traversal (array.iterate, array.foldl, array.map,
\* array.foreach, array.map2) the length read at each step is the length at
\* entry and the traversed array's elements are unchanged: the engine holds
\* its own reference to the traversed array for the whole loop, so a write
\* by the combinator or by another owner lands on a copy.
C24_TraversedUnchanged ==
  op \in ForwardOps =>
    /\ heap[x_it].elems = TraversedAtEntry
    /\ \A k \in 1..Len(clog) : clog[k].n = Len(TraversedAtEntry)
    /\ pc = "loop" => (heap[x_it].pers \/ heap[x_it].rc >= 1)
    /\ \A k \in 1..Len(wlog) : wlog[k].obj = x_it => wlog[k].rc > 1

C24_Witness ==
  /\ op = "foreach"
  /\ pc = "loop"
  /\ Len(inp.a) >= 3
  /\ Len(clog) = 2
  /\ Len(heap) = 4
  /\ x_out # x_it
  /\ heap[x_out].elems[1] # inp.a[1]
  /\ heap[x_it].elems = inp.a
  /\ clog[2].n = Len(inp.a)

\* A 32-bit value that is a Unicode scalar value: below 55296, or above
\* 57343 and below 1114112 (17 * 2^16).
IsScalar(r) ==
  \/ r[1] = 0 /\ r[2] < 55296
  \/ r[1] = 0 /\ r[2] > 57343
  \/ r[1] \in 1..16

\* C26: char.of_nat returns a Unicode scalar value for every natural
\* number: with v the number's 32-bit value, the result is v when v is a
\* scalar value and 0 otherwise; char.to_lower maps each code 65..90 to
\* the code plus 32 and leaves every other value unchanged.
C26_OfNatScalar ==
  /\ (op = "of_nat" /\ pc = "done") =>
       LET v == <<inp.z[2], inp.z[3]>>
       IN /\ IsScalar(res_val)
          /\ res_val = (IF IsScalar(v) THEN v ELSE <<0, 0>>)
  /\ (op = "to_lower" /\ pc = "done") =>
       res_val = (IF inp.z[1] = 0 /\ inp.z[2] \in 65..90
                  THEN <<0, inp.z[2] + 32>>
                  ELSE inp.z)

C26_Witness ==
  /\ op = "of_nat"
  /\ pc = "done"
  /\ inp.z = <<1, 0, 57343>>
  /\ res_val = <<0, 0>>

\* No module constant is assigned twice.
AssignedOnce ==
  /\ ini.nil <= 1
  /\ ini.repr <= 1
  /\ ini.inhabited <= 1
  /\ ini.inhabited_boxed <= 1

(***************************************************************************)
(* C25: for each module initializer, over any sequence of calls with error *)
(* or non-error world arguments: whenever a call returns a non-error       *)
(* result the module's constants have already been assigned, and each      *)
(* constant is assigned at most once.                                      *)
(***************************************************************************)
C25_AssignedOnSuccess ==
  /\ \A k \in 1..Len(ini.log) :
       ini.log[k].res = "ok" => ini.log[k].assigned
  /\ AssignedOnce

====
